---------------------------- MODULE Spec2Model ----------------------------
(***************************************************************************)
(* Model of srt_to_mp3.py: main -> parse_arguments -> prepare (load,       *)
(* kdenlive_format) -> text_to_speech.                                     *)
(*                                                                         *)
(* A line of the subtitle file is a record.  Its kind is the class the     *)
(* code's own tests put the string in:                                     *)
(*   "digits"    str.isdigit() holds                  ("1")                *)
(*   "range"     the time-range regex matches and " --> " splits it in two *)
(*   "rangeX"    the regex matches (its "." accepts any separator          *)
(*               character) but " --> " does not split it                  *)
(*   "text"      none of the above and not starting with the marker ("Hi") *)
(*   "marker"    the marker "#WAIT:" followed by a number     ("#WAIT:0")  *)
(*   "markerNaN" the marker followed by text float() rejects ("#WAIT:abc") *)
(* Times are whole milliseconds: timestamps have three millisecond digits  *)
(* and len(audio_part) is an integer.                                      *)
(***************************************************************************)
EXTENDS Integers, Sequences, FiniteSets, TLC

\* Longest subtitle file, in (non-empty, stripped) lines.
MaxLines == 9

\* ----------------------------------------------------------------- lines

Zero == <<0, 0, 0, 0>>

MkLine(k, s, ts, a) == [kind |-> k, s |-> s, ts |-> ts, te |-> ts, arg |-> a]

Digits    == MkLine("digits", "1", Zero, 0)
Plain     == MkLine("text", "Hi", Zero, 0)
Range(ts) == MkLine("range", "-->", ts, 0)
RangeX    == MkLine("rangeX", "x-->x", Zero, 0)
Marker(n) == MkLine("marker", "#WAIT:", Zero, n)
MarkerNaN == MkLine("markerNaN", "#WAIT:abc", Zero, 0)

\* HH:MM:SS,mmm values the time-range lines of a file carry.
Stamps == {<<0, 0, 0, 0>>, <<0, 0, 2, 0>>, <<0, 0, 10, 0>>}

\* Payloads of cue texts that begin with the marker.
MarkerArgs == {0, 3000}

\* Rendered speech lengths len(audio_part) can return, in ms.
Durations == {0, 2000, 12000}

\* What a file can hold at a line position, one representative of every class
\* the code distinguishes at the place that reads the position: isdigit() on
\* the first line of a triple, extract_time_range on the second, the marker
\* test of text_to_speech on the third.
IndexLines == {Digits, Plain}
TimeLines  == {Range(ts) : ts \in Stamps} \cup {RangeX, Plain}
TextLines  == {Plain, MarkerNaN} \cup {Marker(n) : n \in MarkerArgs}

LinesAt(p) ==
    CASE p % 3 = 1 -> IndexLines
      [] p % 3 = 2 -> TimeLines
      [] OTHER     -> TextLines

\* The files of at most n lines.
RECURSIVE FilesUpTo(_)
FilesUpTo(n) ==
    IF n = 0 THEN {<<>>}
    ELSE LET shorter == FilesUpTo(n - 1) IN
         shorter \cup {Append(f, l) : f \in {g \in shorter : Len(g) = n - 1},
                                      l \in LinesAt(n)}

\* load(): the stripped non-empty lines of the file ([] when it is missing).
LoadResults == FilesUpTo(MaxLines)

\* ------------------------------------------------------------- arguments

SrtArg(v)  == [key |-> "srt=", val |-> v]
Mp3Arg(v)  == [key |-> "mp3=", val |-> v]
FmtArg(v)  == [key |-> "format=", val |-> v]
VoicesArg  == [key |-> "--voices", val |-> ""]

ArgLists ==
    { <<>>,
      <<SrtArg("a.kdenlive.srt")>>,
      <<SrtArg("a.kdenlive.srt"), Mp3Arg("out.mp3")>>,
      <<SrtArg("a.kdenlive.srt"), FmtArg("kdenlive"), Mp3Arg("out.mp3"), VoicesArg>>,
      <<SrtArg("a.kdenlive.srt"), Mp3Arg("out.mp3"), FmtArg("srt")>>,
      <<Mp3Arg("out.mp3")>>,
      <<SrtArg("a.kdenlive.srt"), Mp3Arg("out.mp3"), Mp3Arg("out.mp3")>>,
      <<SrtArg("a.kdenlive.srt"), FmtArg("kdenlive"), FmtArg("kdenlive")>> }

\* path.lower().endswith(ext.lower()) on the paths and extensions used here.
EndsWith(path, ext) ==
    <<path, ext>> \in {<<"a.kdenlive.srt", ".kdenlive.srt">>, <<"out.mp3", ".mp3">>}

check_file(path, ext) == IF EndsWith(path, ext) THEN path ELSE ""

NewData ==
    [srt_filename |-> "", srt_path |-> "", mp3_filename |-> "", mp3_path |-> "",
     mp3_voices |-> FALSE, srt_format |-> "",
     srt_args |-> 0, mp3_args |-> 0, format_args |-> 0]

ApplyArg(d, arg) ==
    CASE arg.key = "srt=" ->
            [d EXCEPT !.srt_args = @ + 1,
                      !.srt_filename = check_file(arg.val, ".kdenlive.srt"),
                      !.srt_path = arg.val]
      [] arg.key = "mp3=" ->
            [d EXCEPT !.mp3_args = @ + 1,
                      !.mp3_filename = check_file(arg.val, ".mp3"),
                      !.mp3_path = arg.val]
      [] arg.key = "format=" ->
            [d EXCEPT !.format_args = @ + 1, !.srt_format = arg.val]
      [] arg.key = "--voices" -> [d EXCEPT !.mp3_voices = TRUE]
      [] OTHER -> d

RECURSIVE ScanArgs(_, _)
ScanArgs(d, as) ==
    IF as = <<>> THEN d ELSE ScanArgs(ApplyArg(d, Head(as)), Tail(as))

\* The output path a run has when no mp3= argument was given.
DefaultMp3Path == ""

\* parse_arguments: [ok |-> FALSE] stands for None.
parse_arguments(as) ==
    LET d == ScanArgs([NewData EXCEPT !.mp3_path = DefaultMp3Path], as) IN
    IF d.srt_args # 1 THEN [ok |-> FALSE, data |-> d]
    ELSE IF d.mp3_args \notin {0, 1} THEN [ok |-> FALSE, data |-> d]
    ELSE IF d.format_args > 1 THEN [ok |-> FALSE, data |-> d]
    ELSE [ok |-> TRUE,
          data |-> IF d.format_args = 0 THEN [d EXCEPT !.srt_format = "kdenlive"]
                   ELSE d]

\* Data.validate
validate(d, ls) ==
    /\ d.srt_path # ""
    /\ d.mp3_path # ""
    /\ d.srt_format # ""
    /\ Len(ls) > 0

\* ---------------------------------------------------------------- parser

isdigit(line) == line.kind = "digits"

parse_time(v) == v[1] * 3600000 + v[2] * 60000 + v[3] * 1000 + v[4]

\* re.fullmatch(rgx, line)
MatchesRange(line) == line.kind \in {"range", "rangeX"}

\* len(line.split(" --> "))
SplitArrowLen(line) == IF line.kind = "range" THEN 2 ELSE 1

\* extract_time_range: [ok |-> FALSE] stands for None.
extract_time_range(line) ==
    IF MatchesRange(line) /\ SplitArrowLen(line) = 2
    THEN [ok |-> TRUE, left |-> parse_time(line.ts), right |-> parse_time(line.te)]
    ELSE [ok |-> FALSE, left |-> 0, right |-> 0]

\* f"{token}{start_time - last_ms}"
WaitToken(delta) == Marker(delta)

\* The supported formats of prepare's format_loaders.
format_loaders == {"kdenlive"}

\* ------------------------------------------------------ text_to_speech

\* re.fullmatch("^" + data.token + ".+", part)
IsWait(part) == part.kind \in {"marker", "markerNaN"}

\* float(part.replace(data.token, "")) raises ValueError
FloatRaises(part) == part.kind = "markerNaN"

\* round(x, 4): the identity on whole milliseconds.
Round4(x) == x

\* wait = round(float(...) - last_duration_ms, 4)
WaitOf(part, last) == Round4(part.arg - last)

SilentText == MkLine("text", "Silent.", Zero, 0)

log_entry(start_ms, duration_ms, text) ==
    [start |-> start_ms, dur |-> duration_ms, text |-> text]

VARIABLES
    args,             \* sys.argv[1:]
    data,             \* the Data object (without lines)
    lines,            \* data.lines
    pc,               \* where the run is
    origin,           \* per token of data.lines: "time" or "text" (what emitted it)
    visited,          \* the line positions kdenlive_format examined as an index line
    idx,              \* text_to_speech: position of the next token
    audio_parts, history, total_ms, last_duration_ms, counter,
    files,            \* artifacts on disk
    synth,            \* the texts handed to the synthesis service, in order
    error,            \* the exception raised, "none" if none
    ret               \* text_to_speech's return value: "none", "true", "false"

vars == <<args, data, lines, pc, origin, visited, idx,
          audio_parts, history, total_ms, last_duration_ms, counter,
          files, synth, error, ret>>

parserVars == <<origin, visited>>
ttsVars == <<idx, audio_parts, history, total_ms, last_duration_ms, counter,
             files, synth, ret>>

Init ==
    /\ args \in ArgLists
    /\ data = NewData
    /\ lines = <<>>
    /\ pc = "main"
    /\ origin = <<>> /\ visited = {}
    /\ idx = 1 /\ audio_parts = <<>> /\ history = <<>>
    /\ total_ms = 0 /\ last_duration_ms = 0 /\ counter = 1
    /\ files = {} /\ synth = <<>> /\ error = "none" /\ ret = "none"

\* main, up to the call of prepare.
Main ==
    /\ pc = "main"
    /\ IF Len(args) < 1
       THEN pc' = "exit" /\ data' = data
       ELSE LET r == parse_arguments(args) IN
            /\ data' = r.data
            /\ pc' = IF r.ok THEN "prepare" ELSE "exit"
    /\ UNCHANGED <<args, lines, parserVars, ttsVars, error>>

\* What one iteration of kdenlive_format's loop appends, given that its three
\* lines exist: the tokens, who emitted each, and the new last_ms.
TripleTokens(idxLine, timeLine, textLine, last) ==
    LET tr == extract_time_range(timeLine)
        w  == IF tr.ok THEN <<WaitToken(tr.left - last)>> ELSE <<>>
        wo == IF tr.ok THEN <<"time">> ELSE <<>>
    IN [toks |-> w \o <<textLine>>,
        from |-> wo \o <<"text">>,
        last |-> IF tr.ok THEN tr.left ELSE last]

\* The step of "for i in range(0, len(lines), 3)".
LoopStep == 3

\* The loop of kdenlive_format from position i (1-based) on: st holds result,
\* last_ms, the origin of each token and the positions examined so far.
RECURSIVE kdenlive_loop(_, _, _)
kdenlive_loop(ls, i, st) ==
    IF i > Len(ls) THEN st
    ELSE LET seen == [st EXCEPT !.visited = @ \cup {i}] IN
         IF ~isdigit(ls[i]) THEN kdenlive_loop(ls, i + LoopStep, seen)
         ELSE IF i + 2 > Len(ls)
         THEN \* lines[i + 1] or lines[i + 2]: IndexError
              [seen EXCEPT !.raised = TRUE]
         ELSE LET t == TripleTokens(ls[i], ls[i + 1], ls[i + 2], st.last_ms) IN
              kdenlive_loop(ls, i + LoopStep,
                            [seen EXCEPT !.result = @ \o t.toks,
                                         !.origin = @ \o t.from,
                                         !.last_ms = t.last])

NoTokens == [result |-> <<>>, origin |-> <<>>, last_ms |-> 0, visited |-> {},
             raised |-> FALSE]

kdenlive_format(ls) ==
    IF Len(ls) < 3 THEN NoTokens ELSE kdenlive_loop(ls, 1, NoTokens)

\* prepare: data.lines = load(data.srt_path).
Load ==
    /\ pc = "prepare"
    /\ lines' \in LoadResults
    /\ pc' = "format"
    /\ UNCHANGED <<args, data, origin, visited, ttsVars, error>>

\* The rest of prepare, and main's data.lines = prepare(data).
Format ==
    /\ pc = "format"
    /\ IF lines = <<>> \/ data.srt_format \notin format_loaders
       THEN /\ lines' = <<>>
            /\ pc' = "tts"
            /\ UNCHANGED <<origin, visited, error>>
       ELSE \E r \in {kdenlive_format(lines)} :
            /\ origin' = r.origin
            /\ visited' = r.visited
            /\ IF r.raised
               THEN \* caught nowhere: the run ends with a traceback
                    pc' = "crashed" /\ error' = "IndexError" /\ lines' = lines
               ELSE pc' = "tts" /\ error' = error /\ lines' = r.result
    /\ UNCHANGED <<args, data, ttsVars>>

\* text_to_speech, up to the loop.
TtsStart ==
    /\ pc = "tts"
    /\ IF ~validate(data, lines)
       THEN pc' = "done" /\ ret' = "false"
       ELSE pc' = "loop" /\ ret' = ret
    /\ idx' = 1 /\ audio_parts' = <<>> /\ history' = <<>>
    /\ total_ms' = 0 /\ last_duration_ms' = 0 /\ counter' = 1
    /\ UNCHANGED <<args, data, lines, parserVars, files, synth, error>>

\* A handler inside the loop that logs the exception and goes on.
RaiseSwallowed(e) ==
    /\ error' = e
    /\ pc' = pc
    /\ ret' = ret

\* The except clause: text_to_speech returns False.
Raise(e) ==
    /\ error' = e
    /\ pc' = "done"
    /\ ret' = "false"

\* "total_ms = d" in place of "total_ms += d".
AdvanceAssigns(total, d) == d

\* The clock after a segment of length d was logged at total.
Advance(total, d) == total + d

\* A running sum of the speech durations in place of the last one.
RememberCumulative(last, d) == last + d

\* The duration remembered for the next silence.
Remember(last, d) == d

\* "wait != 0" in place of "wait > 0".
MakesSilenceNonZero(wait) == wait # 0

\* Whether a computed wait makes a silent segment.
MakesSilence(wait) == wait > 0

\* One iteration of the loop on a token the marker test accepts.
TtsSilence ==
    /\ pc = "loop"
    /\ idx <= Len(lines)
    /\ IsWait(lines[idx])
    /\ IF FloatRaises(lines[idx])
       THEN /\ Raise("ValueError")
            /\ UNCHANGED <<idx, audio_parts, history, total_ms>>
       ELSE LET wait == WaitOf(lines[idx], last_duration_ms) IN
            IF MakesSilence(wait)
            THEN \/ /\ audio_parts' = Append(audio_parts, [kind |-> "silent", dur |-> wait])
                    /\ history' = Append(history, log_entry(total_ms, wait, SilentText))
                    /\ total_ms' = Advance(total_ms, wait)
                    /\ idx' = idx + 1
                    /\ UNCHANGED <<pc, error, ret>>
                 \/ \* AudioSegment.silent raises
                    /\ Raise("AudioFailure")
                    /\ UNCHANGED <<idx, audio_parts, history, total_ms>>
            ELSE /\ idx' = idx + 1
                 /\ UNCHANGED <<audio_parts, history, total_ms, pc, error, ret>>
    /\ UNCHANGED <<args, data, lines, parserVars, last_duration_ms, counter,
                   files, synth>>

\* The file tts.save writes for the counter-th voice.
VoiceFile(n) == <<"part", n>>

\* One iteration of the loop on any other token.
TtsSpeech ==
    /\ pc = "loop"
    /\ idx <= Len(lines)
    /\ ~IsWait(lines[idx])
    /\ synth' = Append(synth, lines[idx])
    /\ \/ \* gTTS, write_to_fp or AudioSegment.from_file raises
          /\ Raise("SynthesisFailure")
          /\ UNCHANGED <<idx, audio_parts, history, total_ms, last_duration_ms,
                         counter, files>>
       \/ \E d \in Durations :
          /\ audio_parts' = Append(audio_parts, [kind |-> "speech", dur |-> d])
          /\ last_duration_ms' = Remember(last_duration_ms, d)
          /\ history' = Append(history, log_entry(total_ms, d, lines[idx]))
          /\ total_ms' = Advance(total_ms, d)
          /\ IF data.mp3_voices
             THEN \/ /\ files' = files \cup {VoiceFile(counter)}
                     /\ counter' = counter + 1
                     /\ idx' = idx + 1
                     /\ UNCHANGED <<pc, error, ret>>
                  \/ \* tts.save raises
                     /\ Raise("SaveFailure")
                     /\ UNCHANGED <<idx, counter, files>>
             ELSE /\ idx' = idx + 1
                  /\ UNCHANGED <<counter, files, pc, error, ret>>
    /\ UNCHANGED <<args, data, lines, parserVars>>

\* An export that does not look at audio_parts.
HasAudioAlways(parts) == TRUE

\* Whether the run has audio to export.
HasAudio(parts) == parts # <<>>

\* After the loop: save the history, export the audio, return.
TtsFinish ==
    /\ pc = "loop"
    /\ idx > Len(lines)
    /\ \E saved \in BOOLEAN, exported \in BOOLEAN :
        LET h == IF saved THEN {<<"history">>} ELSE {} IN
        IF HasAudio(audio_parts)
        THEN IF exported
             THEN /\ files' = files \cup h \cup {<<"mp3">>}
                  /\ ret' = "true"
                  /\ error' = error
             ELSE \* final_audio.export raises
                  /\ files' = files \cup h
                  /\ ret' = "false"
                  /\ error' = "ExportFailure"
        ELSE /\ exported = FALSE
             /\ files' = files \cup h
             /\ ret' = "false"
             /\ error' = error
    /\ pc' = "done"
    /\ UNCHANGED <<args, data, lines, parserVars, idx, audio_parts, history,
                   total_ms, last_duration_ms, counter, synth>>

Next ==
    \/ Main
    \/ Load
    \/ Format
    \/ TtsStart
    \/ TtsSilence
    \/ TtsSpeech
    \/ TtsFinish

Spec == Init /\ [][Next]_vars

\* ---------------------------------------------------------------- claims

RECURSIVE SumDur(_)
SumDur(rows) == IF rows = <<>> THEN 0 ELSE rows[1].dur + SumDur(Tail(rows))

Max(a, b) == IF a >= b THEN a ELSE b

\* The duration of the last speech segment of parts, 0 if there is none.
RECURSIVE LastSpeechDur(_)
LastSpeechDur(parts) ==
    IF parts = <<>> THEN 0
    ELSE IF parts[Len(parts)].kind = "speech" THEN parts[Len(parts)].dur
    ELSE LastSpeechDur(SubSeq(parts, 1, Len(parts) - 1))

SpeechRows == SelectSeq(history, LAMBDA r : r.text # SilentText)
SilentRows == SelectSeq(history, LAMBDA r : r.text = SilentText)

\* The loop is about to process a token the marker test accepts, whose
\* payload float() accepts.
AtSilence == pc = "loop" /\ idx <= Len(lines) /\ IsWait(lines[idx])
                /\ ~FloatRaises(lines[idx])

TokenFailures == {"SynthesisFailure", "AudioFailure", "SaveFailure", "ValueError"}

\* C1 (Conservation): at every point of text_to_speech's loop the ledger has
\* one row per rendered segment, with the segment's duration; the first row
\* starts at 0, every later row starts where the previous one ends (so the
\* offsets never decrease), and total_ms is the sum of the rows' durations.
C1_Conservation ==
    /\ Len(history) = Len(audio_parts)
    /\ \A k \in 1..Len(history) : history[k].dur = audio_parts[k].dur
    /\ history # <<>> => history[1].start = 0
    /\ \A k \in 1..(Len(history) - 1) :
         /\ history[k + 1].start = history[k].start + history[k].dur
         /\ history[k + 1].start >= history[k].start
    /\ total_ms = SumDur(history)

\* A finished, exported run with silences and several speeches in its ledger.
C1_Witness ==
    /\ pc = "done" /\ ret = "true"
    /\ Len(SpeechRows) >= 3 /\ Len(SilentRows) >= 2
    /\ total_ms > 0

C3_OneStepLookback ==
    [][(AtSilence /\ idx' = idx + 1)
        => LET w == lines[idx].arg - LastSpeechDur(audio_parts) IN
           IF w > 0
           THEN /\ audio_parts' = Append(audio_parts, [kind |-> "silent", dur |-> w])
                /\ history' = Append(history, log_entry(total_ms, w, SilentText))
           ELSE /\ audio_parts' = audio_parts
                /\ history' = history]_vars

\* Cues at 0 ms, 0 ms and 10000 ms: the first speech renders to 12000 ms and
\* overruns its gap, the second renders to 2000 ms, and the silence before the
\* third is 10000 - 2000 = 8000 ms: the first overrun is not carried forward.
C3_Witness ==
    /\ Len(history) >= 3
    /\ history[1] = log_entry(0, 12000, Plain)
    /\ history[2] = log_entry(12000, 2000, Plain)
    /\ history[3] = log_entry(14000, 8000, SilentText)

\* C4 (all-or-nothing): once the synthesis service or the audio collaborator
\* has failed on a token, text_to_speech has returned failure without moving
\* past that token, no final audio exists, and the voice files written for
\* the earlier speeches (one per speech saved before the failure) are on disk.
C4_AllOrNothing ==
    error \in TokenFailures =>
        /\ pc = "done" /\ ret = "false"
        /\ idx <= Len(lines)
        /\ <<"mp3">> \notin files
        /\ data.mp3_voices =>
             /\ counter - 1 = Len(SpeechRows) - (IF error = "SaveFailure" THEN 1 ELSE 0)
             /\ \A n \in 1..(counter - 1) : VoiceFile(n) \in files

\* Scenario E: the service fails on the second of three speech tokens; the
\* first voice file is on disk.
C4_Witness ==
    /\ error = "SynthesisFailure"
    /\ Len(synth) = 2
    /\ Len(SelectSeq(lines, LAMBDA t : ~IsWait(t))) = 3
    /\ files = {VoiceFile(1)}

\* The tokens of the accepted triples of a file, in order: a complete triple
\* whose index line is a number and whose time-range line is well-formed gives
\* a silence token (the gap since the previous accepted start) and its text;
\* any other triple gives nothing.
RECURSIVE AcceptedTokens(_, _)
AcceptedTokens(ls, last) ==
    IF Len(ls) < 3 THEN <<>>
    ELSE LET tr == extract_time_range(ls[2])
             rest == SubSeq(ls, 4, Len(ls))
         IN IF isdigit(ls[1]) /\ tr.ok
            THEN <<WaitToken(tr.left - last), ls[3]>> \o AcceptedTokens(rest, tr.left)
            ELSE AcceptedTokens(rest, last)

\* C5 (a rejected triple is dropped whole): whenever kdenlive_format returns,
\* its output is exactly the tokens of the accepted triples, in order.
C5_RejectedTripleDropped ==
    [][(pc = "format" /\ pc' = "tts" /\ data.srt_format \in format_loaders)
        => lines' = AcceptedTokens(lines, 0)]_vars

\* C6 (malformed input is never fatal): kdenlive_format never raises, and it
\* examines index lines only at positions 0, 3, 6, ... (1, 4, 7, ... here).
C6_NeverFatal ==
    /\ error # "IndexError"
    /\ pc # "crashed"
    /\ \A p \in visited : p % 3 = 1

\* C7 (no audio to export): a run of text_to_speech that ends with zero
\* segments has exported nothing and returned failure; with an empty token
\* list the synthesis service was never called and no file was written.
C7_NoAudioNoExport ==
    /\ (pc = "done" /\ audio_parts = <<>>)
          => (ret = "false" /\ <<"mp3">> \notin files)
    /\ (pc = "done" /\ lines = <<>>) => (synth = <<>> /\ files = {})

\* A run that passed validation, processed every token and rendered nothing.
C7_Witness ==
    /\ pc = "done" /\ error = "none"
    /\ lines # <<>> /\ idx > Len(lines)
    /\ audio_parts = <<>>
    /\ ret = "false"

\* The run was given exactly one srt= argument and nothing else.
OnlySrtArg == Len(args) = 1 /\ args[1].key = "srt="

\* C8 (the output path is optional): a run given only srt= has a non-empty
\* output path, so with a non-empty token list it passes validation.
C8_DefaultOutputPath ==
    (OnlySrtArg /\ pc \in {"tts", "loop", "done"} /\ lines # <<>>)
        => (data.mp3_path # "" /\ validate(data, lines))

\* C9 (the marker keeps timing and text apart): each token the loop gets past
\* is processed as speech (handed to the synthesis service, logged with its
\* text) when the planner emitted it for a text line, and as silence only
\* when the planner emitted it for a time range.
C9_MarkerSeparates ==
    [][(pc = "loop" /\ idx <= Len(lines) /\ origin[idx] = "text")
        => /\ synth' = Append(synth, lines[idx])
           /\ (idx' = idx + 1 =>
                 history' = Append(history, log_entry(total_ms,
                                history'[Len(history')].dur, lines[idx])))]_vars

\* The start times of the cues the planner accepted, from its silence tokens.
CueStarts ==
    LET F[n \in 0..Len(lines)] ==
            IF n = 0 THEN <<>>
            ELSE IF origin[n] = "time"
                 THEN Append(F[n - 1],
                             lines[n].arg + (IF F[n - 1] = <<>> THEN 0
                                             ELSE F[n - 1][Len(F[n - 1])]))
                 ELSE F[n - 1]
    IN F[Len(lines)]

\* kdenlive_format returned, and every triple it examined was accepted whole.
AllTriplesValid ==
    /\ pc \in {"tts", "loop", "done"}
    /\ Len(origin) = Len(lines)
    /\ Len(lines) = 2 * Cardinality(visited)

NonDecreasing(t) == \A k \in 1..(Len(t) - 1) : t[k] <= t[k + 1]

\* The k-th speech starts at or after the k-th cue, at the offset the
\* recurrence gives, and on time exactly when no earlier speech overran.
OnSchedule(t, rows) ==
    \A k \in 1..Len(rows) :
        /\ rows[k].start >= t[k]
        /\ k > 1 => rows[k].start = rows[k - 1].start
                        + Max(rows[k - 1].dur, t[k] - t[k - 1])
        /\ rows[k].start = t[k]
             <=> \A j \in 1..(k - 1) : rows[j].dur <= t[j + 1] - t[j]

\* C10 (speech never starts early): for a file whose triples are all valid
\* with non-decreasing start times, the k-th speech row is on schedule.
C10_NeverEarly ==
    (AllTriplesValid /\ NonDecreasing(CueStarts))
        => (Len(SpeechRows) <= Len(CueStarts) /\ OnSchedule(CueStarts, SpeechRows))

\* The same for the files none of whose cue texts begins with the marker.
C10_WithoutMarkerTexts ==
    (/\ AllTriplesValid /\ NonDecreasing(CueStarts)
     /\ \A p \in 1..Len(lines) : origin[p] = "text" => ~IsWait(lines[p]))
        => (Len(SpeechRows) <= Len(CueStarts) /\ OnSchedule(CueStarts, SpeechRows))
=============================================================================
